---- MODULE Spec2Model ----
\* A model of the RSEQ team-calendar scraper (src/example/script.py):
\*   - main(): the per-run orchestrator (sink connection, render session, the
\*     loop over the configured teams, the dedup-gated calendar event, the three
\*     sensor publications per team) together with the dedup snapshot file;
\*   - the pure helpers slugify, parse_datetime_candidates, to_local_iso,
\*     extract_standings_rows and find_next_and_upcoming, computed on texts
\*     that are tuples of one-character strings.
EXTENDS Integers, Sequences, FiniteSets, TLC

VARIABLES
    cfg,        \* the command line of the deployment: [teams, ha]
    pc,         \* position of main(): "idle" (not running) or "loop"
    run,        \* number of runs of main() that reached the loop
    idx,        \* 1-based index of the next team of the for loop
    last,       \* main's dict `last`: slug -> dedup key
    file,       \* STATE_FILE on disk: [kind, map]
    locals,     \* main's loop variables status/next_game/upcoming/standings
    published,  \* the publications of the current run, in order
    res,        \* per run: connects, disconnects, drivers built, drivers quit
    step,       \* what the latest loop iteration did (observation record)
    hist,       \* per slug: history of the dedup gate (observation record)
    probe       \* input and output of a pure helper (the helper specifications)

vars == <<cfg, pc, run, idx, last, file, locals, published, res, step, hist, probe>>

\* ---------------------------------------------------------------- texts

None == <<>>

Digits == {"0", "1", "2", "3", "4", "5", "6", "7", "8", "9"}

DigitVal(c) ==
    CASE c = "0" -> 0 [] c = "1" -> 1 [] c = "2" -> 2 [] c = "3" -> 3
      [] c = "4" -> 4 [] c = "5" -> 5 [] c = "6" -> 6 [] c = "7" -> 7
      [] c = "8" -> 8 [] c = "9" -> 9

RECURSIVE NumVal(_)
\* the number written by a non-empty tuple of digits
NumVal(t) ==
    IF Len(t) = 0 THEN 0
    ELSE 10 * NumVal(SubSeq(t, 1, Len(t) - 1)) + DigitVal(t[Len(t)])

AllDigits(t) == \A i \in 1..Len(t) : t[i] \in Digits

\* str.lower() on the modelled alphabet
Lower(c) ==
    CASE c = "A" -> "a" [] c = "B" -> "b" [] c = "C" -> "c" [] c = "D" -> "d"
      [] c = "E" -> "e" [] c = "F" -> "f" [] c = "G" -> "g" [] c = "H" -> "h"
      [] c = "I" -> "i" [] c = "J" -> "j" [] c = "K" -> "k" [] c = "L" -> "l"
      [] c = "M" -> "m" [] c = "N" -> "n" [] c = "O" -> "o" [] c = "P" -> "p"
      [] c = "Q" -> "q" [] c = "R" -> "r" [] c = "S" -> "s" [] c = "T" -> "t"
      [] c = "U" -> "u" [] c = "V" -> "v" [] c = "W" -> "w" [] c = "X" -> "x"
      [] c = "Y" -> "y" [] c = "Z" -> "z" [] c = "É" -> "é"
      [] OTHER -> c

LowerText(t) == [i \in 1..Len(t) |-> Lower(t[i])]

\* `n in h`: n occurs in h as a contiguous run
Contains(h, n) ==
    \E i \in 0..(Len(h) - Len(n)) : \A j \in 1..Len(n) : h[i + j] = n[j]

\* str.strip()
RECURSIVE LStrip(_)
LStrip(t) == IF Len(t) > 0 /\ t[1] = " " THEN LStrip(Tail(t)) ELSE t

RECURSIVE RStrip(_)
RStrip(t) ==
    IF Len(t) > 0 /\ t[Len(t)] = " " THEN RStrip(SubSeq(t, 1, Len(t) - 1)) ELSE t

Strip(t) == RStrip(LStrip(t))

\* ---------------------------------------------------------------- slugify

\* unicodedata.normalize("NFKD", c).encode("ascii", "ignore"): an accented
\* letter keeps its base letter, a letter with no decomposition is dropped
AsciiOf(c) ==
    CASE c = "é" -> <<"e">> [] c = "É" -> <<"E">> [] c = "ø" -> <<>> [] OTHER -> <<c>>

RECURSIVE AsciiText(_)
AsciiText(t) == IF Len(t) = 0 THEN <<>> ELSE AsciiOf(t[1]) \o AsciiText(Tail(t))

IsAlnum(c) ==
    c \in Digits
       \cup {"A", "B", "C", "D", "E", "F", "G", "H", "I", "J", "K", "L",
             "M", "N", "O", "P", "Q", "R", "S", "T", "U", "V", "W", "X", "Y", "Z"}
       \cup {"a", "b", "c", "d", "e", "f", "g", "h", "i", "j", "k", "l",
             "m", "n", "o", "p", "q", "r", "s", "t", "u", "v", "w", "x", "y", "z"}

RECURSIVE SubNonAlnum(_, _)
\* re.sub(r"[^a-zA-Z0-9]+", "_", value): every run of other characters
\* becomes one underscore
SubNonAlnum(t, out) ==
    IF Len(t) = 0 THEN out
    ELSE IF IsAlnum(t[1]) THEN SubNonAlnum(Tail(t), Append(out, t[1]))
    ELSE IF Len(out) > 0 /\ out[Len(out)] = "_" THEN SubNonAlnum(Tail(t), out)
    ELSE SubNonAlnum(Tail(t), Append(out, "_"))

StripUnderscore(t) ==
    LET a == IF Len(t) > 0 /\ t[1] = "_" THEN Tail(t) ELSE t
    IN  IF Len(a) > 0 /\ a[Len(a)] = "_" THEN SubSeq(a, 1, Len(a) - 1) ELSE a

slugify(name) ==
    LET value == LowerText(StripUnderscore(SubNonAlnum(AsciiText(name), <<>>)))
    IN  IF value = <<>> THEN <<"r", "s", "e", "q">> ELSE value

\* ---------------------------------------------------------------- time

\* A naive datetime is <<year, month, day, hour, minute, second>>.
IsLeap(y) == (y % 4 = 0 /\ y % 100 # 0) \/ y % 400 = 0

DaysInMonth(y, m) ==
    CASE m \in {1, 3, 5, 7, 8, 10, 12} -> 31
      [] m \in {4, 6, 9, 11} -> 30
      [] OTHER -> IF IsLeap(y) THEN 29 ELSE 28

RECURSIVE DaysBeforeMonth(_, _)
DaysBeforeMonth(y, m) ==
    IF m <= 1 THEN 0 ELSE DaysBeforeMonth(y, m - 1) + DaysInMonth(y, m - 1)

RECURSIVE DaysBeforeYear(_)
\* days from 2024-01-01 to the first day of year y
DaysBeforeYear(y) ==
    IF y <= 2024 THEN 0
    ELSE DaysBeforeYear(y - 1) + (IF IsLeap(y - 1) THEN 366 ELSE 365)

\* seconds of a wall-clock time since 2024-01-01T00:00:00
WallSeconds(dt) ==
    (((DaysBeforeYear(dt[1]) + DaysBeforeMonth(dt[1], dt[2]) + dt[3] - 1) * 24
        + dt[4]) * 60 + dt[5]) * 60 + dt[6]

\* The America/Toronto rules pytz carries for the modelled years: daylight
\* time from the second Sunday of March to the first Sunday of November.
DstStartDay(y) == IF y = 2024 THEN 10 ELSE 9
DstEndDay(y) == IF y = 2024 THEN 3 ELSE 2

\* tz.localize(dt) with pytz's default is_dst=False: a wall time the spring
\* jump skips (02:00-02:59) and a wall time the autumn hour repeats
\* (01:00-01:59) both get the standard offset.
LocalizeOffset(dt) ==
    LET w == WallSeconds(dt)
        s == WallSeconds(<<dt[1], 3, DstStartDay(dt[1]), 3, 0, 0>>)
        e == WallSeconds(<<dt[1], 11, DstEndDay(dt[1]), 1, 0, 0>>)
    IN  IF s <= w /\ w < e THEN -4 ELSE -5

\* to_local_iso for the naive datetime the parser gives: the ISO text
\* "YYYY-MM-DDTHH:MM:SS-05:00" is <<y, mo, d, H, M, S, offset hours>>; when
\* pytz cannot be imported the naive text has no offset.
to_local_iso(dt, pytz) ==
    IF dt = None THEN None
    ELSE IF pytz THEN dt \o <<LocalizeOffset(dt)>>
    ELSE dt

\* datetime.fromisoformat(text), then (for a text with no offset, if pytz can
\* be imported) tz.localize: the instant in seconds of UTC since 2024
Instant(iso, pytz) ==
    LET w == WallSeconds(SubSeq(iso, 1, 6))
    IN  IF Len(iso) = 7 THEN w - iso[7] * 3600
        ELSE IF pytz THEN w - LocalizeOffset(iso) * 3600
        ELSE w

\* The order of two ISO texts as Python strings: fixed-width fields compare
\* as numbers, and "-04:00" sorts before "-05:00".
IsoTextKey(iso) == [i \in 1..Len(iso) |-> IF i = 7 THEN 0 - iso[i] ELSE iso[i]]

RECURSIVE LexLess(_, _)
LexLess(a, b) ==
    IF Len(b) = 0 THEN FALSE
    ELSE IF Len(a) = 0 THEN TRUE
    ELSE IF a[1] < b[1] THEN TRUE
    ELSE IF a[1] > b[1] THEN FALSE
    ELSE LexLess(Tail(a), Tail(b))

\* list.sort(key=...): a stable sort of the entries [k |-> key, v |-> item]
RECURSIVE InsertStable(_, _)
InsertStable(s, e) ==
    IF Len(s) = 0 THEN <<e>>
    ELSE IF LexLess(e.k, s[1].k) THEN <<e>> \o s
    ELSE <<s[1]>> \o InsertStable(Tail(s), e)

RECURSIVE SortStable(_)
SortStable(es) ==
    IF Len(es) = 0 THEN <<>>
    ELSE InsertStable(SortStable(SubSeq(es, 1, Len(es) - 1)), es[Len(es)])

Values(es) == [i \in 1..Len(es) |-> es[i].v]

RECURSIVE SelectRows(_, _, _)
\* the loop of find_next_and_upcoming: rows with a datetime at or after now
SelectRows(rows, now, pytz) ==
    IF Len(rows) = 0 THEN <<>>
    ELSE LET r == rows[1]
             rest == SelectRows(Tail(rows), now, pytz)
         IN  IF r.datetime = None THEN rest
             ELSE IF Instant(r.datetime, pytz) >= now THEN <<r>> \o rest
             ELSE rest

UpcomingLimit == 5

SortFuture(future) ==
    Values(SortStable([i \in 1..Len(future) |->
        [k |-> IsoTextKey(future[i].datetime), v |-> future[i]]]))

\* returns [next_game, upcoming]
find_next_and_upcoming(rows, now, pytz) ==
    LET future == SortFuture(SelectRows(rows, now, pytz))
        n == IF Len(future) < UpcomingLimit THEN Len(future) ELSE UpcomingLimit
    IN  [next_game |-> IF Len(future) > 0 THEN future[1] ELSE None,
         upcoming |-> SubSeq(future, 1, n)]

\* ---------------------------------------------------------------- dedup store

\* STATE_FILE: absent, a JSON object, or a file json.load rejects
FileAbsent == [kind |-> "absent", map |-> <<>>]
FileCorrupt == [kind |-> "corrupt", map |-> <<>>]
FileOf(state) == [kind |-> "json", map |-> state]

\* a missing file and an unreadable file both load as the empty dict
load_last_events(f) == IF f.kind = "json" THEN f.map ELSE <<>>

\* dict.get(slug)
Get(d, slug) == IF slug \in DOMAIN d THEN d[slug] ELSE None

\* d[slug] = key
Put(d, slug, key) == [s \in DOMAIN d \cup {slug} |-> IF s = slug THEN key ELSE d[s]]

SaveModes == {"ok", "open_fails", "dump_fails"}

\* a save that never reaches the disk
save_never_writes(state, f, mode) == f

\* save_last_events: open(STATE_FILE, "w") truncates the file before
\* json.dump writes it, and every exception is swallowed. The result is the
\* file afterwards: written, untouched (open failed) or cut short (the write
\* failed after the truncation).
save_last_events(state, f, mode) ==
    CASE mode = "ok" -> FileOf(state)
      [] mode = "open_fails" -> f
      [] OTHER -> FileCorrupt

\* ng_key = f"{slug}:{next_game.get('datetime')}": a slug holds no colon, so
\* the pair determines the text and the text the pair
ng_key(slug, next_game) == <<slug, next_game.datetime>>

\* a gate that only looks whether the slug has an entry at all
gate_fires_if_absent(stored, key) == stored = None

\* `if last.get(slug) != ng_key`
gate_fires(stored, key) == stored # key

\* the key stored before the action call is made
last_set_before_call(d, slug, key, call_ok) == Put(d, slug, key)

\* lines 482-483: the key is stored once create_event_in_ha has returned; an
\* exception of the call leaves the dict as it was
last_after_call(d, slug, key, call_ok) == IF call_ok THEN Put(d, slug, key) ELSE d

\* lines 465-488, the optional calendar event of one team. call_ok and mode
\* are what the action call and the file system do if they are reached.
ha_event(d, f, slug, next_game, ha, call_ok, mode) ==
    LET gated == next_game # None /\ ha
        key == IF next_game # None THEN ng_key(slug, next_game) ELSE None
        called == gated /\ gate_fires(Get(d, slug), key)
        saving == called /\ call_ok
        d2 == IF called THEN last_after_call(d, slug, key, call_ok) ELSE d
    IN  [last |-> d2,
         file |-> IF saving THEN save_last_events(d2, f, mode) ELSE f,
         gated |-> gated, key |-> key, called |-> called,
         call_ok |-> called /\ call_ok,
         saving |-> saving, save_ok |-> saving /\ mode = "ok"]

\* ---------------------------------------------------------------- configuration

Team(name, url) == [kind |-> "dict", name |-> name, team_url |-> url]

\* an entry of --teams-json that is no JSON object: team.get raises on it
ScalarEntry == [kind |-> "scalar", name |-> <<>>, team_url |-> ""]

TeamLists ==
    { <<Team(<<"A">>, "u1"), Team(<<"B">>, "u2")>>,
      <<Team(<<"A">>, "u1"), Team(<<"a", "!">>, "u2")>>,
      <<Team(<<"A">>, ""), Team(<<"B">>, "u2")>>,
      <<ScalarEntry, Team(<<"B">>, "u2")>>,
      <<Team(<<"é", " ", "B">>, "u1")>> }

\* ha: --ha_url, --ha_token and --ha_calendar_entity are all given
Configs ==
    { [teams |-> t, ha |-> TRUE] : t \in TeamLists }
        \cup { [teams |-> <<Team(<<"A">>, "u1"), Team(<<"B">>, "u2")>>, ha |-> FALSE] }

\* `team.get("name") or "default"`
NameOf(team) == IF team.name = <<>> THEN <<"d", "e", "f", "a", "u", "l", "t">> ELSE team.name

SlugOf(team) == slugify(NameOf(team))

Slugs(c) == { SlugOf(c.teams[i]) : i \in { j \in 1..Len(c.teams) : c.teams[j].kind = "dict" } }

entity_prefix == <<"r", "s", "e", "q">>

\* ---------------------------------------------------------------- pages

\* what scrape_team_calendar returns for a rendered page: calendar rows
\* (extract_calendar_rows) and standings rows (extract_standings_rows)
Row(no, naive) ==
    [no |-> no, date |-> <<naive[1], naive[2], naive[3]>>, time |-> <<naive[4], naive[5]>>,
     datetime |-> to_local_iso(naive, TRUE), visitor |-> "V", home |-> "H"]

GamePast == Row(1, <<2024, 10, 1, 19, 0, 0>>)
Game1 == Row(2, <<2024, 10, 5, 19, 30, 0>>)
Game2 == Row(3, <<2024, 10, 12, 14, 0, 0>>)
Standing1 == [pos |-> <<"1">>, team |-> <<"A">>, PES |-> None, PTS |-> <<"6">>]

Pages ==
    { [rows |-> <<>>, standings |-> <<Standing1>>],
      [rows |-> <<GamePast, Game1, Game2>>, standings |-> <<Standing1>>],
      [rows |-> <<GamePast, Game2>>, standings |-> <<>>],
      [rows |-> <<GamePast>>, standings |-> <<>>] }

\* now_local() of the modelled runs: 2024-10-03T12:00:00-04:00
NowMain == Instant(<<2024, 10, 3, 12, 0, 0, -4>>, TRUE)

\* ---------------------------------------------------------------- main

\* lines 448-451: the loop variables at the start of an iteration
FreshLocals == [status |-> "success", next_game |-> None, upcoming |-> <<>>, standings |-> <<>>]

\* lines 453-462: the loop variables after the try block. `raised` is an
\* exception of scrape_team_calendar; prev is what the variables held when
\* the iteration began (after lines 448-451).
after_scrape(prev, raised, page, now) ==
    IF raised THEN [prev EXCEPT !.status = "error: scrape"]
    ELSE LET f == find_next_and_upcoming(page.rows, now, TRUE)
         IN  [status |-> IF page.rows = <<>> THEN "error: calendrier vide" ELSE prev.status,
              next_game |-> f.next_game, upcoming |-> f.upcoming,
              standings |-> page.standings]

\* an iteration that keeps the previous team's loop variables
iteration_locals_no_reset(carried, raised, page, now) == after_scrape(carried, raised, page, now)

\* lines 448-462 of one iteration: reset, then the try block
iteration_locals(carried, raised, page, now) == after_scrape(FreshLocals, raised, page, now)

\* fmt_team_row
fmt_team_row(r) ==
    <<r.pos, r.team, IF r.PTS # None THEN r.PTS ELSE IF r.PES # None THEN r.PES ELSE <<"-">>>>

\* lines 490-541: the three sensors of one team
publications(i, team, l) ==
    LET slug == SlugOf(team)
        top == IF Len(l.standings) < 3 THEN Len(l.standings) ELSE 3
    IN  << [target |-> i, sensor_id |-> <<entity_prefix, slug, "status">>,
            state |-> <<l.status>>,
            attributes |-> [team_url |-> team.team_url]],
           [target |-> i, sensor_id |-> <<entity_prefix, slug, "next_game">>,
            state |-> IF l.next_game # None
                      THEN <<l.next_game.date, l.next_game.time,
                             l.next_game.visitor, l.next_game.home>>
                      ELSE <<"Aucun match a venir">>,
            attributes |-> [team |-> NameOf(team), team_url |-> team.team_url,
                            next_game |-> l.next_game, upcoming |-> l.upcoming]],
           [target |-> i, sensor_id |-> <<entity_prefix, slug, "standings">>,
            state |-> IF l.standings # <<>>
                      THEN [k \in 1..top |-> fmt_team_row(l.standings[k])]
                      ELSE <<"Classement indisponible">>,
            attributes |-> [team |-> NameOf(team), team_url |-> team.team_url,
                            standings |-> l.standings]] >>

\* runs of main that reach the loop, and failures (of the action call or of
\* the snapshot write) the environment produces, in one behaviour
MaxRuns == 3
MaxFaults == 1

NoResources == [connects |-> 0, loop_starts |-> 0, loop_stops |-> 0, disconnects |-> 0,
                drivers |-> 0, quits |-> 0, outcome |-> "none"]

NoStep == [kind |-> "none", target |-> 0, slug |-> <<>>, gated |-> FALSE, key |-> None,
           stored_before |-> None, called |-> FALSE, call_ok |-> FALSE,
           saving |-> FALSE, save_ok |-> FALSE, last_same |-> TRUE, file_same |-> TRUE,
           published |-> FALSE, applied_before |-> {}, presented_before |-> None,
           retry_before |-> None, last_applied_before |-> None,
           own_before |-> None,
           raised |-> FALSE, page |-> [rows |-> <<>>, standings |-> <<>>]]

NoSlugHistory == [applied |-> {}, presented |-> None, calls |-> 0, save_fails |-> 0,
                  retry |-> None, last_applied |-> None]

NoProbe == [op |-> "none"]

InitMain(c) ==
    /\ cfg = c
    /\ pc = "idle"
    /\ run = 0
    /\ idx = 1
    /\ last = <<>>
    /\ file = FileAbsent
    /\ locals = FreshLocals
    /\ published = <<>>
    /\ res = NoResources
    /\ step = NoStep
    /\ hist = [act_clean |-> TRUE, save_clean |-> TRUE, faults |-> 0,
               slug |-> [s \in Slugs(c) |-> NoSlugHistory],
               own |-> [i \in 1..Len(c.teams) |-> None]]

Init == (\E c \in Configs : InitMain(c)) /\ probe = NoProbe

\* lines 418-428: client.connect raises; main prints and returns
StartConnectFails ==
    /\ pc = "idle" /\ run < MaxRuns
    /\ res' = [NoResources EXCEPT !.outcome = "connect_failed"]
    /\ UNCHANGED <<cfg, pc, run, idx, last, file, locals, published, step, hist, probe>>

\* lines 418-431: the sink is connected and its loop started, then
\* build_driver raises outside the try/finally and the exception leaves main
StartDriverFails ==
    /\ pc = "idle" /\ run < MaxRuns
    /\ res' = [NoResources EXCEPT !.connects = 1, !.loop_starts = 1,
                                  !.outcome = "driver_failed"]
    /\ UNCHANGED <<cfg, pc, run, idx, last, file, locals, published, step, hist, probe>>

\* lines 418-436: connection, driver, load_last_events; the loop begins
StartRun ==
    /\ pc = "idle" /\ run < MaxRuns
    /\ run' = run + 1
    /\ res' = [NoResources EXCEPT !.connects = 1, !.loop_starts = 1, !.drivers = 1,
                                  !.outcome = "running"]
    /\ last' = load_last_events(file)
    /\ pc' = "loop"
    /\ idx' = 1
    /\ published' = <<>>
    /\ step' = NoStep
    /\ UNCHANGED <<cfg, file, locals, hist, probe>>

\* lines 544-551: the finally block
released(r, outcome) ==
    [r EXCEPT !.quits = r.quits + 1, !.loop_stops = r.loop_stops + 1,
              !.disconnects = r.disconnects + 1, !.outcome = outcome]

\* line 438 on an entry that is no dict: the exception leaves the loop through
\* the finally block and then leaves main
IterateScalar ==
    /\ pc = "loop" /\ idx <= Len(cfg.teams)
    /\ cfg.teams[idx].kind # "dict"
    /\ res' = released(res, "aborted")
    /\ pc' = "idle"
    /\ idx' = 1
    /\ last' = <<>>
    /\ locals' = FreshLocals
    /\ published' = <<>>
    /\ step' = NoStep
    /\ UNCHANGED <<cfg, run, file, hist, probe>>

\* lines 438-442: a team with no team_url is skipped with a warning
IterateNoUrl ==
    /\ pc = "loop" /\ idx <= Len(cfg.teams)
    /\ cfg.teams[idx].kind = "dict"
    /\ cfg.teams[idx].team_url = ""
    /\ idx' = idx + 1
    /\ step' = [NoStep EXCEPT !.kind = "skipped", !.target = idx,
                              !.slug = SlugOf(cfg.teams[idx])]
    /\ UNCHANGED <<cfg, pc, run, last, file, locals, published, res, hist, probe>>

\* the history of the gate of one slug after an iteration h of that slug
slug_history(old, h) ==
    LET fresh == h.gated /\ h.key # old.presented
        base == IF fresh THEN [old EXCEPT !.presented = h.key, !.calls = 0,
                                          !.save_fails = 0]
                ELSE old
    IN  [base EXCEPT
            !.calls = @ + (IF h.called THEN 1 ELSE 0),
            !.applied = IF h.call_ok THEN @ \cup {h.key} ELSE @,
            !.last_applied = IF h.call_ok THEN h.key ELSE @,
            !.retry = IF h.call_ok THEN None
                      ELSE IF h.called THEN h.key ELSE @]

\* lines 437-541 for a team with a team_url: scrape, derive, the optional
\* calendar event, the three publications
Iterate(raised, page, call_ok, mode) ==
    /\ pc = "loop" /\ idx <= Len(cfg.teams)
    /\ cfg.teams[idx].kind = "dict"
    /\ cfg.teams[idx].team_url # ""
    /\ \E team \in {cfg.teams[idx]} :
       \E slug \in {SlugOf(team)} :
       \E l \in {iteration_locals(locals, raised, page, NowMain)} :
       \E h \in {ha_event(last, file, slug, l.next_game, cfg.ha, call_ok, mode)} :
       \E save_failed \in {h.saving /\ ~h.save_ok} :
       \E old \in {hist.slug[slug]} :
       \E fault \in {(h.called /\ ~h.call_ok) \/ save_failed} :
           /\ fault => hist.faults < MaxFaults
           /\ locals' = l
           /\ last' = h.last
           /\ file' = h.file
           /\ published' = published \o publications(idx, team, l)
           /\ idx' = idx + 1
           /\ step' = [kind |-> "processed", target |-> idx, slug |-> slug,
                       gated |-> h.gated, key |-> h.key,
                       stored_before |-> Get(last, slug),
                       called |-> h.called, call_ok |-> h.call_ok,
                       saving |-> h.saving, save_ok |-> h.save_ok,
                       last_same |-> (h.last = last), file_same |-> (h.file = file),
                       published |-> TRUE,
                       applied_before |-> old.applied,
                       presented_before |-> old.presented,
                       retry_before |-> old.retry,
                       last_applied_before |-> old.last_applied,
                       own_before |-> hist.own[idx],
                       raised |-> raised, page |-> page]
           /\ hist' = [act_clean |-> hist.act_clean /\ ~(h.called /\ ~h.call_ok),
                       save_clean |-> hist.save_clean /\ ~save_failed,
                       faults |-> hist.faults + (IF fault THEN 1 ELSE 0),
                       slug |-> [s \in DOMAIN hist.slug |->
                           LET a == IF s = slug THEN slug_history(hist.slug[s], h)
                                    ELSE hist.slug[s]
                           IN  [a EXCEPT !.save_fails = @ + (IF save_failed THEN 1 ELSE 0)]],
                       own |-> [hist.own EXCEPT ![idx] = IF h.call_ok THEN h.key ELSE @]]
    /\ UNCHANGED <<cfg, pc, run, res, probe>>

\* scrape_team_calendar (or find_next_and_upcoming) raises
IterateScrapeFails ==
    \E call_ok \in {TRUE}, mode \in {"ok"} :
        Iterate(TRUE, [rows |-> <<>>, standings |-> <<>>], call_ok, mode)

\* the page is scraped; the action call and the snapshot write, when they are
\* reached, do what the environment decides
IterateScraped ==
    \E page \in Pages, call_ok \in BOOLEAN, mode \in SaveModes :
        Iterate(FALSE, page, call_ok, mode)

\* lines 543-551: the loop is over, the finally block releases both resources
FinishRun ==
    /\ pc = "loop" /\ idx > Len(cfg.teams)
    /\ res' = released(res, "completed")
    /\ pc' = "idle"
    /\ idx' = 1
    /\ last' = <<>>
    /\ locals' = FreshLocals
    /\ published' = <<>>
    /\ step' = NoStep
    /\ UNCHANGED <<cfg, run, file, hist, probe>>

Next ==
    \/ StartConnectFails
    \/ StartDriverFails
    \/ StartRun
    \/ IterateScalar
    \/ IterateNoUrl
    \/ IterateScrapeFails
    \/ IterateScraped
    \/ FinishRun

Spec == Init /\ [][Next]_vars

\* ---------------------------------------------------------------- claims of main

Clean == hist.act_clean /\ hist.save_clean

\* C1: with the action credentials configured, an iteration calls the
\* event-creation action if and only if the team has a next game and the key
\* stored for its slug differs from the freshly computed key; and while every
\* action call and snapshot save has succeeded, the stored key is the key of
\* the latest action call for that slug (so an unchanged key is not acted on
\* again in a later run, and a changed key is), and every call is followed by
\* one snapshot write that holds the new key.
C1_ActionIffKeyDiffers ==
    (cfg.ha /\ step.kind = "processed") =>
        /\ step.called <=> (locals.next_game # None /\ step.stored_before # step.key)
        /\ Clean =>
            /\ step.stored_before = step.last_applied_before
            /\ step.called =>
                /\ step.saving /\ step.save_ok
                /\ Get(last, step.slug) = step.key
                /\ file = FileOf(last)

\* a second run met the key its first run had acted on and made no call
C1_Witness ==
    /\ run = 2 /\ Clean /\ step.kind = "processed"
    /\ step.gated /\ ~step.called
    /\ step.key = step.last_applied_before
    /\ hist.slug[step.slug].calls = 1

\* C2: when the event-creation call raises, the key stored for the slug (in
\* the dict and in the snapshot file) is left as it was and no snapshot write
\* is attempted; a stored key is always one whose action call returned
\* successfully; and (no snapshot save having failed) the next time the gate
\* of that slug meets the key whose call failed, it calls the action again.
C2_FailedCallKeepsKey ==
    /\ (step.called /\ ~step.call_ok) =>
            /\ step.last_same /\ step.file_same /\ ~step.saving
            /\ Get(last, step.slug) # step.key
    /\ \A s \in DOMAIN last : last[s] \in hist.slug[s].applied
    /\ (step.gated /\ hist.save_clean /\ step.retry_before # None
            /\ step.key = step.retry_before) => step.called

\* a run retries the key whose call failed in the run before
C2_Witness ==
    /\ run >= 2 /\ step.kind = "processed"
    /\ step.retry_before # None /\ step.key = step.retry_before
    /\ step.called /\ step.call_ok

\* the bound of C3 on the calls made for one unchanged key of a slug (action
\* calls themselves succeeding)
C3_Bounded ==
    hist.act_clean =>
        \A s \in DOMAIN hist.slug : hist.slug[s].calls <= 1 + hist.slug[s].save_fails

\* a failed save leaves the iteration to publish and the loop to go on
C3_SaveFailureNotFatal ==
    (step.saving /\ ~step.save_ok) =>
        step.published /\ pc = "loop" /\ idx = step.target + 1

\* the slug is that of one configured team only
SoleSlug(s) ==
    Cardinality({ i \in 1..Len(cfg.teams) :
                    cfg.teams[i].kind = "dict" /\ SlugOf(cfg.teams[i]) = s }) = 1

\* C3 as claimed: a failed snapshot save never aborts the run, the calls for
\* an unchanged key are at most one plus the number of failed saves, and a
\* later change of the key (a key other than the one the team had at its
\* previous gate) fires the action. Stated for a team that shares its slug
\* with no other team, action calls themselves succeeding.
C3_Original ==
    /\ C3_SaveFailureNotFatal
    /\ C3_Bounded
    /\ (hist.act_clean /\ step.gated /\ SoleSlug(step.slug)
            /\ step.presented_before # None
            /\ step.key # step.presented_before) => step.called

\* C3 as amended: a failed snapshot save never aborts the run, the calls for
\* an unchanged key are at most one plus the number of failed saves, and a
\* later change of the key to one not yet acted on for that slug fires the
\* action.
C3_SaveFailureBounded ==
    /\ C3_SaveFailureNotFatal
    /\ C3_Bounded
    /\ (step.gated /\ step.key \notin step.applied_before) => step.called

\* an unchanged key was acted on a second time after a failed save, and a
\* changed key fired after a failed save
C3_Witness ==
    /\ hist.act_clean /\ ~hist.save_clean
    /\ step.kind = "processed" /\ step.called /\ SoleSlug(step.slug)
    /\ step.presented_before # None /\ step.key # step.presented_before
    /\ \E s \in DOMAIN hist.slug : hist.slug[s].calls = 2 /\ hist.slug[s].save_fails >= 1

HasUrl(i) == cfg.teams[i].kind = "dict" /\ cfg.teams[i].team_url # ""

\* the loop variables an iteration has when nothing of another team enters it
OwnLocals(raised, page) ==
    IF raised THEN [FreshLocals EXCEPT !.status = "error: scrape"]
    ELSE [status |-> IF page.rows = <<>> THEN "error: calendrier vide" ELSE "success",
          next_game |-> find_next_and_upcoming(page.rows, NowMain, TRUE).next_game,
          upcoming |-> find_next_and_upcoming(page.rows, NowMain, TRUE).upcoming,
          standings |-> page.standings]

\* C4: whatever happened to the teams before it (a scrape failure included),
\* every team with a url that the loop reaches is processed, and its status,
\* next-game and standings payloads are those its own page gives; the loop
\* goes on to the next team after a failure.
C4_FailureIsolated ==
    pc = "loop" =>
        /\ Len(published) = 3 * Cardinality({ i \in 1..(idx - 1) : HasUrl(i) })
        /\ step.kind = "processed" =>
            /\ idx = step.target + 1
            /\ SubSeq(published, Len(published) - 2, Len(published))
                 = publications(step.target, cfg.teams[step.target],
                                OwnLocals(step.raised, step.page))

\* the team after a failed one published a next game of its own
C4_Witness ==
    /\ pc = "loop" /\ step.kind = "processed" /\ step.target = 2
    /\ ~step.raised /\ locals.next_game # None
    /\ Len(published) = 6
    /\ published[1].state = <<"error: scrape">>
    /\ published[4].state = <<"success">>
    /\ published[5].attributes.next_game = locals.next_game

\* C5: when the loop of a run is over, every configured team has a status
\* publication whose state is "success" or an error text.
C5_EveryTeamHasStatus ==
    (pc = "loop" /\ idx > Len(cfg.teams)) =>
        \A i \in 1..Len(cfg.teams) :
            \E k \in 1..Len(published) :
                /\ published[k].target = i
                /\ published[k].sensor_id[3] = "status"
                /\ published[k].state \in
                     {<<"success">>, <<"error: scrape">>, <<"error: calendrier vide">>}

\* C6: when main has returned, the sink connection it opened and the render
\* session it built have each been released exactly once.
C6_ReleasedOnce ==
    pc = "idle" =>
        /\ res.disconnects = res.connects
        /\ res.loop_stops = res.loop_starts
        /\ res.quits = res.drivers

\* two configured teams with different names
OtherTarget(i) ==
    \E j \in 1..Len(cfg.teams) :
        /\ j # i /\ cfg.teams[j].kind = "dict"
        /\ NameOf(cfg.teams[j]) # NameOf(cfg.teams[i])

\* C11: targets with different names do not interfere through the dedup
\* store: the stored key an iteration reads is the key of that target's own
\* latest successful action call (absent when it has made none), so the
\* action fires for a target exactly when its fresh key differs from its own
\* last-applied key.
C11_NoInterference ==
    (cfg.ha /\ Clean /\ step.kind = "processed" /\ OtherTarget(step.target)) =>
        /\ step.stored_before = step.own_before
        /\ step.called <=> (step.gated /\ step.key # step.own_before)

\* ---------------------------------------------------------------- parse_datetime_candidates

RECURSIVE SplitOn(_, _)
\* str.split(sep): the fields between the separators, empty ones included
SplitOn(t, sep) ==
    IF Len(t) = 0 THEN << <<>> >>
    ELSE LET r == SplitOn(Tail(t), sep)
         IN  IF t[1] = sep THEN << <<>> >> \o r
             ELSE << <<t[1]>> \o r[1] >> \o Tail(r)

\* the runs of non-blank characters of a text
Tokens(t) == SelectSeq(SplitOn(t, " "), LAMBDA f : f # <<>>)

\* a numeric directive of strptime: %Y is \d\d\d\d; %m, %d, %H, %M, %S take
\* one or two digits within their range
Field(f, minlen, maxlen, lo, hi) ==
    /\ Len(f) >= minlen /\ Len(f) <= maxlen
    /\ AllDigits(f)
    /\ NumVal(f) >= lo /\ NumVal(f) <= hi

\* "%Y-%m-%d" (ymd) or "%d-%m-%Y" / "%d/%m/%Y" on one token; a day the month
\* does not have is the ValueError of the datetime constructor
StrpDate(tok, sep, ymd) ==
    LET f == SplitOn(tok, sep)
        y == IF ymd THEN f[1] ELSE f[3]
        d == IF ymd THEN f[3] ELSE f[1]
    IN  IF /\ Len(f) = 3
           /\ Field(y, 4, 4, 1, 9999) /\ Field(f[2], 1, 2, 1, 12) /\ Field(d, 1, 2, 1, 31)
           /\ NumVal(d) <= DaysInMonth(NumVal(y), NumVal(f[2]))
        THEN <<NumVal(y), NumVal(f[2]), NumVal(d)>>
        ELSE None

\* "%H:%M" or "%H:%M:%S" on one token
StrpTime(tok, seconds) ==
    LET f == SplitOn(tok, ":")
    IN  IF /\ Len(f) = (IF seconds THEN 3 ELSE 2)
           /\ Field(f[1], 1, 2, 0, 23) /\ Field(f[2], 1, 2, 0, 59)
           /\ seconds => Field(f[3], 1, 2, 0, 59)
        THEN <<NumVal(f[1]), NumVal(f[2]), IF seconds THEN NumVal(f[3]) ELSE 0>>
        ELSE None

\* the formats of `fmts`, in order: [sep, ymd, time]
Formats ==
    << [sep |-> "-", ymd |-> TRUE, time |-> "HM"],
       [sep |-> "-", ymd |-> TRUE, time |-> "none"],
       [sep |-> "-", ymd |-> FALSE, time |-> "HM"],
       [sep |-> "-", ymd |-> FALSE, time |-> "none"],
       [sep |-> "/", ymd |-> FALSE, time |-> "HM"],
       [sep |-> "/", ymd |-> FALSE, time |-> "none"],
       [sep |-> "-", ymd |-> TRUE, time |-> "HMS"] >>

\* datetime.strptime(text, fmt): the whole text must match; the blank of a
\* format matches one or more blanks
Strptime(text, fmt) ==
    LET toks == Tokens(text)
        wanted == IF fmt.time = "none" THEN 1 ELSE 2
    IN  IF Len(toks) # wanted THEN None
        ELSE LET d == StrpDate(toks[1], fmt.sep, fmt.ymd)
                 t == IF fmt.time = "none" THEN <<0, 0, 0>>
                      ELSE StrpTime(toks[2], fmt.time = "HMS")
             IN  IF d = None \/ t = None THEN None ELSE d \o t

RECURSIVE FirstFormat(_, _)
\* the for loop over fmts: the first format that parses wins
FirstFormat(text, i) ==
    IF i > Len(Formats) THEN None
    ELSE IF Strptime(text, Formats[i]) # None THEN Strptime(text, Formats[i])
    ELSE FirstFormat(text, i + 1)

\* .replace("h", ":").replace("H", ":")
ReplaceH(t) == [i \in 1..Len(t) |-> IF t[i] \in {"h", "H"} THEN ":" ELSE t[i]]

\* re.fullmatch(r"^\d{1,2}$", ts)
BareHour(ts) == Len(ts) >= 1 /\ Len(ts) <= 2 /\ AllDigits(ts)

parse_datetime_candidates(date_str, time_str) ==
    LET ds == Strip(date_str)
        t0 == ReplaceH(Strip(time_str))
        ts == IF BareHour(t0) THEN t0 \o <<":", "0", "0">> ELSE t0
        dt_text == IF ts # <<>> THEN Strip(ds \o <<" ">> \o ts) ELSE ds
    IN  FirstFormat(dt_text, 1)

\* extract_calendar_rows lines 195-196: the parse, the date-only retry, and
\* the localisation
normalize(date_str, time_str, pytz) ==
    LET first == parse_datetime_candidates(date_str, time_str)
        dt == IF first # None THEN first ELSE parse_datetime_candidates(date_str, <<>>)
    IN  to_local_iso(dt, pytz)

MaxTimeLen == 3

TimeChars == {"1", "9", "h", ":"}

RECURSIVE TextsUpTo(_, _)
\* every text of at most n characters of the alphabet
TextsUpTo(chars, n) ==
    IF n = 0 THEN { <<>> }
    ELSE LET shorter == TextsUpTo(chars, n - 1)
         IN  shorter \cup { Append(t, c) : t \in shorter, c \in chars }

DateTexts ==
    { <<"2", "0", "2", "4", "-", "1", "0", "-", "0", "5">>,
      <<"0", "5", "-", "1", "0", "-", "2", "0", "2", "4">>,
      <<"0", "5", "/", "1", "0", "/", "2", "0", "2", "4">>,
      <<"2", "0", "2", "5", "-", "3", "-", "9">>,
      <<"2", "0", "2", "4", "-", "0", "2", "-", "3", "0">>,
      <<"2", "0", "2", "4", "/", "1", "0", "/", "0", "5">>,
      <<"n", "o", "t", "-", "a", "-", "d", "a", "t", "e">>,
      <<>> }

TimeTexts ==
    TextsUpTo(TimeChars, MaxTimeLen) \cup
    { <<"1", "9", "h", "3", "0">>,
      <<"1", "9", "H", "3", "0">>,
      <<"7", "h", "0", "5">>,
      <<"1", "9", ":", "3", "0">>,
      <<"1", "9", "h">>,
      <<"7", "h">>,
      <<" ", "1", "9", "h", " ">>,
      <<"2", "4", "h", "0", "0">>,
      <<"1", "9", "h", "3", "0", "h">>,
      <<"1", "9", ":", "3", "0", ":", "1", "5">> }

InitNormalize ==
    /\ InitMain([teams |-> <<>>, ha |-> FALSE])
    /\ \E d \in DateTexts, t \in TimeTexts, z \in BOOLEAN :
          probe = [op |-> "normalize", date |-> d, time |-> t, pytz |-> z,
                   done |-> FALSE, datetime |-> None]

\* one table row goes through lines 195-196
NormalizeRow ==
    /\ probe.op = "normalize" /\ ~probe.done
    /\ probe' = [probe EXCEPT !.done = TRUE,
                              !.datetime = normalize(probe.date, probe.time, probe.pytz)]
    /\ UNCHANGED <<cfg, pc, run, idx, last, file, locals, published, res, step, hist>>

NextNormalize == NormalizeRow

SpecNormalize == InitNormalize /\ [][NextNormalize]_vars

\* a date text alone that one of the formats parses
ValidDate(d) == Len(Tokens(Strip(d))) = 1 /\ parse_datetime_candidates(d, <<>>) # None

\* "HHhMM" (an hour, the letter h, two digits of minutes) and "HHh"
HourPart(t) == SplitOn(LowerText(Strip(t)), "h")

IsHourMinutes(t) ==
    /\ Len(HourPart(t)) = 2
    /\ Field(HourPart(t)[1], 1, 2, 0, 23) /\ Field(HourPart(t)[2], 2, 2, 0, 59)

IsBareHour(t) ==
    /\ Len(HourPart(t)) = 2
    /\ Field(HourPart(t)[1], 1, 2, 0, 23) /\ HourPart(t)[2] = <<>>

\* the local wall time <<y, mo, d, H, M, S>> of a normalized datetime
WallOf(iso) == SubSeq(iso, 1, 6)

DayOf(d) == SubSeq(parse_datetime_candidates(d, <<>>), 1, 3)

\* C7: for a valid date text D, (D, "HHhMM") normalizes to local HH:MM on D
\* and (D, "HHh") to local HH:00 on D; an unparsable date with an empty time
\* normalizes to absent.
C7_Normalize ==
    (probe.op = "normalize" /\ probe.done) =>
        /\ (ValidDate(probe.date) /\ IsHourMinutes(probe.time)) =>
              /\ probe.datetime # None
              /\ WallOf(probe.datetime) = DayOf(probe.date)
                    \o <<NumVal(HourPart(probe.time)[1]), NumVal(HourPart(probe.time)[2]), 0>>
        /\ (ValidDate(probe.date) /\ IsBareHour(probe.time)) =>
              /\ probe.datetime # None
              /\ WallOf(probe.datetime) = DayOf(probe.date)
                    \o <<NumVal(HourPart(probe.time)[1]), 0, 0>>
        /\ (parse_datetime_candidates(probe.date, <<>>) = None /\ Strip(probe.time) = <<>>) =>
              probe.datetime = None

\* ---------------------------------------------------------------- extract_standings_rows

\* names lists of the idx_* assignments, in order
Names ==
    [pos  |-> <<<<"p", "o", "s">>>>,
     team |-> <<<<"é", "q", "u", "i", "p", "e">>, <<"e", "q", "u", "i", "p", "e">>, <<"t", "e", "a", "m">>>>,
     MJ   |-> <<<<"m", "j">>>>,
     V    |-> <<<<" ", "v">>, <<"w", "i", "n", "s">>>>,
     D    |-> <<<<" ", "d">>, <<"l", "o", "s", "s", "e", "s">>>>,
     N    |-> <<<<" ", "n">>, <<"d", "r", "a", "w", "s">>>>,
     PP   |-> <<<<"p", "p">>, <<"p", "o", "i", "n", "t", "s", " ", "f", "o", "r">>>>,
     PC   |-> <<<<"p", "c">>, <<"p", "o", "i", "n", "t", "s", " ", "a", "g", "a", "i", "n", "t", "s">>, <<"p", "o", "i", "n", "t", "s", " ", "a", "g", "a", "i", "n", "s", "t">>, <<"p", "o", "i", "n", "t", "s", " ", "a", "g", "a", "i", "n", "s", "t", "s">>>>,
     MOY  |-> <<<<"m", "o", "y">>>>,
     PES  |-> <<<<"p", "t", "s", " ", "e", "t", "h">>, <<"p", "e", "s">>>>,
     PTS  |-> <<<<"p", "t", "s", " ", "t", "o", "t">>, <<"p", "t", "s">>, <<"t", "o", "t", "a", "l", " ", "p", "o", "i", "n", "t", "s">>>>]

Fields == DOMAIN Names

\* header h carries one of the names
Matches(h, names) == \E k \in 1..Len(names) : Contains(LowerText(h), names[k])

\* the first header cell, in column order, that carries any of the names;
\* columns count from 1 here and 0 stands for None
find_idx(headers, names) ==
    IF \E i \in 1..Len(headers) : Matches(headers[i], names)
    THEN CHOOSE i \in 1..Len(headers) :
            /\ Matches(headers[i], names)
            /\ \A j \in 1..(i - 1) : ~Matches(headers[j], names)
    ELSE 0

Indexes(headers) == [f \in Fields |-> find_idx(headers, Names[f])]

at(tds, i) == IF i # 0 /\ i <= Len(tds) THEN tds[i] ELSE None

\* int(text) succeeds on an optional sign followed by digits
IsInt(t) ==
    /\ Len(t) >= 1
    /\ IF t[1] \in {"+", "-"} THEN Len(t) >= 2 /\ AllDigits(Tail(t)) ELSE AllDigits(t)

IntVal(t) ==
    IF t[1] = "-" THEN 0 - NumVal(Tail(t))
    ELSE IF t[1] = "+" THEN NumVal(Tail(t))
    ELSE NumVal(t)

PosSentinel == 999999

pos_key(e) == IF IsInt(e.pos) THEN IntVal(e.pos) ELSE PosSentinel

RECURSIVE Entries(_, _)
\* the loop over tbody rows: skip the rows without cells, keep the entries
\* that have a position and a team
Entries(body, idxs) ==
    IF Len(body) = 0 THEN <<>>
    ELSE LET tds == body[1]
             entry == [f \in Fields |-> at(tds, idxs[f])]
             rest == Entries(Tail(body), idxs)
         IN  IF tds = <<>> THEN rest
             ELSE IF entry.pos # None /\ entry.team # None THEN <<entry>> \o rest
             ELSE rest

\* a table is [present, headers, body]; the text of an empty cell is the
\* empty text, which `at` returns as it is and the filter rejects
extract_standings_rows(table) ==
    IF ~table.present THEN <<>>
    ELSE LET rows == Entries(table.body, Indexes(table.headers))
         IN  Values(SortStable([i \in 1..Len(rows) |->
                 [k |-> <<pos_key(rows[i])>>, v |-> rows[i]]]))

MaxRows == 3

\* header rows whose cells carry recognizable labels
BaseHeaders ==
    { <<<<"P", "o", "s">>, <<"É", "q", "u", "i", "p", "e">>, <<"P", "T", "S", " ", "E", "t", "h">>, <<"P", "T", "S", " ", "t", "o", "t">>>>,
      <<<<"P", "o", "s">>, <<"T", "e", "a", "m">>, <<"W", "i", "n", "s">>, <<"V">>>>,
      <<<<"P", "o", "s">>, <<"É", "q", "u", "i", "p", "e">>, <<"P", "P">>, <<"P", "C">>>> }

\* a table in which the position column holds a rank and every other cell
\* names its own header and row
BaseTable(headers) ==
    [present |-> TRUE, headers |-> headers,
     body |-> << [i \in 1..Len(headers) |->
                    IF Matches(headers[i], Names.pos) THEN <<"2">> ELSE Append(headers[i], "2")],
                 [i \in 1..Len(headers) |->
                    IF Matches(headers[i], Names.pos) THEN <<"1">> ELSE Append(headers[i], "1")] >>]

Perms(n) == { p \in [1..n -> 1..n] : \A i, j \in 1..n : p[i] = p[j] => i = j }

\* the same table with its columns in the order p
Permuted(table, p) ==
    [present |-> TRUE,
     headers |-> [i \in 1..Len(table.headers) |-> table.headers[p[i]]],
     body |-> [r \in 1..Len(table.body) |->
                  [i \in 1..Len(table.headers) |-> table.body[r][p[i]]]]]

PosTexts == { <<"1">>, <<"2">>, <<"1", "0">>, <<"-", "1">>, <<"x">>, <<"9", "9", "9", "9", "9", "9">>, <<"1", "0", "0", "0", "0", "0", "0">> }

TeamName(i) == <<"T", CHOOSE c \in Digits : DigitVal(c) = i>>

RankHeaders == << <<"P", "o", "s">>, <<"É", "q", "u", "i", "p", "e">> >>

\* the rows the i-th tbody row is drawn from: a position and a team, a row
\* without a team, a row too short to have a team cell, a row without cells
RowChoices(i) ==
    { <<q, TeamName(i)>> : q \in PosTexts } \cup { << <<"3">>, <<>> >>, << <<"4">> >>, <<>> }

RECURSIVE Bodies(_)
\* every tbody of at most n rows
Bodies(n) ==
    IF n = 0 THEN { <<>> }
    ELSE LET shorter == Bodies(n - 1)
         IN  shorter \cup { Append(b, r) : b \in { x \in shorter : Len(x) = n - 1 },
                                           r \in RowChoices(n) }

NoTable == [present |-> FALSE, headers |-> <<>>, body |-> <<>>]

\* the tables read: none, a ranking in the usual column order, and every
\* column order of the labelled tables; `base` is the table before its
\* columns are reordered
StandingsInputs ==
    { [table |-> NoTable, base |-> NoTable] }
    \cup { [table |-> [present |-> TRUE, headers |-> RankHeaders, body |-> b],
            base  |-> [present |-> TRUE, headers |-> RankHeaders, body |-> b]] :
           b \in Bodies(MaxRows) }
    \cup { [table |-> Permuted(BaseTable(h), p), base |-> BaseTable(h)] :
           h \in BaseHeaders, p \in Perms(4) }

InitStandings ==
    /\ InitMain([teams |-> <<>>, ha |-> FALSE])
    /\ \E i \in StandingsInputs :
          probe = [op |-> "standings", table |-> i.table, base |-> i.base,
                   done |-> FALSE, rows |-> <<>>]

\* one page's standings table goes through extract_standings_rows
ExtractStandings ==
    /\ probe.op = "standings" /\ ~probe.done
    /\ probe' = [probe EXCEPT !.done = TRUE,
                              !.rows = extract_standings_rows(probe.table)]
    /\ UNCHANGED <<cfg, pc, run, idx, last, file, locals, published, res, step, hist>>

NextStandings == ExtractStandings

SpecStandings == InitStandings /\ [][NextStandings]_vars

\* the header cell a field resolves to, None when it resolves to no column
HeaderOf(headers, f) == at(headers, Indexes(headers)[f])

\* C8: under every permutation of the column order, each semantic field
\* resolves to the same header cell and so to the same cell values per row.
C8_ColumnOrderFree ==
    (probe.op = "standings" /\ probe.done /\ probe.table.present) =>
        /\ \A f \in Fields :
              HeaderOf(probe.table.headers, f) = HeaderOf(probe.base.headers, f)
        /\ probe.rows = extract_standings_rows(probe.base)

\* the kept rows of the table read, in input order
Kept == Entries(probe.table.body, Indexes(probe.table.headers))

\* C9: the output is the kept rows ascending by integer position, every row
\* with an unparsable position after all rows with a valid one, and the
\* unparsable rows in their input order.
C9_RankOrder ==
    (probe.op = "standings" /\ probe.done) =>
        LET out == probe.rows
            bad(e) == ~IsInt(e.pos)
        IN  /\ Len(out) = Len(Kept)
            /\ \A k \in 1..Len(Kept) : \E i \in 1..Len(out) : out[i] = Kept[k]
            /\ \A i, j \in 1..Len(out) :
                  (i < j /\ ~bad(out[i]) /\ ~bad(out[j])) => IntVal(out[i].pos) <= IntVal(out[j].pos)
            /\ \A i, j \in 1..Len(out) : (i < j /\ bad(out[i])) => bad(out[j])
            /\ SelectSeq(out, bad) = SelectSeq(Kept, bad)

\* ---------------------------------------------------------------- find_next_and_upcoming on its own

MaxEntries == 6

\* the wall times the i-th calendar row is drawn from: none, a time on the
\* night the clocks go forward (02:30 does not exist on 2025-03-09, 03:00 is
\* the first minute of summer time), an evening of the same week
EntryChoices(i) ==
    { None,
      IF i % 2 = 1 THEN <<2025, 3, 9, 2, 30, 0>> ELSE <<2025, 3, 9, 3, 0, 0>>,
      <<2025, 3, 3 + i, 19, 0, 0>> }

RECURSIVE Calendars(_)
\* every calendar of at most n rows, as the wall times of its rows
Calendars(n) ==
    IF n = 0 THEN { <<>> }
    ELSE LET shorter == Calendars(n - 1)
         IN  shorter \cup { Append(c, w) : c \in { x \in shorter : Len(x) = n - 1 },
                                           w \in EntryChoices(n) }

\* the rows extract_calendar_rows makes of these wall times
CalendarRows(c, pytz) ==
    [i \in 1..Len(c) |->
        [no |-> i, datetime |-> to_local_iso(c[i], pytz), visitor |-> "V", home |-> "H"]]

\* now_local() at these wall times
NowChoices == { <<2025, 3, 1, 12, 0, 0>>, <<2025, 3, 6, 12, 0, 0>>, <<2025, 3, 9, 12, 0, 0>> }

InitDerive ==
    /\ InitMain([teams |-> <<>>, ha |-> FALSE])
    /\ \E c \in Calendars(MaxEntries), w \in NowChoices, z \in BOOLEAN :
          probe = [op |-> "derive", rows |-> CalendarRows(c, z),
                   now |-> Instant(to_local_iso(w, z), z), pytz |-> z,
                   done |-> FALSE, next_game |-> None, upcoming |-> <<>>]

\* one call of find_next_and_upcoming
DeriveFacts ==
    /\ probe.op = "derive" /\ ~probe.done
    /\ \E r \in { find_next_and_upcoming(probe.rows, probe.now, probe.pytz) } :
          probe' = [probe EXCEPT !.done = TRUE,
                                 !.next_game = r.next_game,
                                 !.upcoming = r.upcoming]
    /\ UNCHANGED <<cfg, pc, run, idx, last, file, locals, published, res, step, hist>>

NextDerive == DeriveFacts

SpecDerive == InitDerive /\ [][NextDerive]_vars

\* the instant of a row of the probed calendar
At(r) == Instant(r.datetime, probe.pytz)

\* the rows with an instant at or after the reference instant
Qualifying ==
    { i \in 1..Len(probe.rows) :
        probe.rows[i].datetime # None /\ At(probe.rows[i]) >= probe.now }

\* C10: upcoming is the entries with an instant at or after the reference
\* instant, ascending by instant and cut to the first five; next is the first
\* of them, or null with an empty window when none qualifies.
C10_EarliestFirst ==
    (probe.op = "derive" /\ probe.done) =>
        LET up == probe.upcoming
            n == Cardinality(Qualifying)
        IN  /\ Len(up) = (IF n < UpcomingLimit THEN n ELSE UpcomingLimit)
            /\ \A k \in 1..Len(up) : up[k].no \in Qualifying /\ up[k] = probe.rows[up[k].no]
            /\ \A j, k \in 1..Len(up) : j < k => (up[j].no # up[k].no /\ At(up[j]) <= At(up[k]))
            /\ \A i \in Qualifying :
                  (\A k \in 1..Len(up) : up[k].no # i) =>
                      \A k \in 1..Len(up) : At(up[k]) <= At(probe.rows[i])
            /\ probe.next_game = (IF n = 0 THEN None ELSE up[1])

====
